---- MODULE Spec2Model ----
(***************************************************************************)
(* Model of the product-recommendation front end: the App shell            *)
(* (src/unnamed/part_002), the UserPreferences component                   *)
(* (src/unnamed/part_000), the Catalog's wish and comparison lists         *)
(* (src/unnamed/part_001), the BrowsingHistory panel                       *)
(* (src/frontend/src/components/BrowsingHistory.js) and the two API calls  *)
(* (src/frontend/src/services/api.js).                                     *)
(*                                                                         *)
(* Strings that the code inspects character by character (names, brands,   *)
(* categories, search text) are sequences of one-character strings; the    *)
(* price-range value, which the code only compares for equality, is a      *)
(* TLA+ string.                                                            *)
(***************************************************************************)
EXTENDS Integers, Sequences, FiniteSets, TLC

VARIABLES
    \* ---- App (part_002:11-24)
    products, filteredProducts, userPreferences, browsingHistory,
    recommendations, searchQuery, isLoading, isLoadingProducts, notification,
    \* ---- App: asynchronous work in flight
    loadPc,          \* position of loadProducts / fetchProducts
    requests,        \* recommendation requests in flight: records [id, pc]
    nextReq,         \* number of recommendation requests issued so far
    timers,          \* pending setTimeout callbacks started by showNotification
    filterPending,   \* the filter effect's dependencies changed since it last ran
    \* ---- UserPreferences (part_000:5-7)
    selectedCategories, selectedBrands, priceRange,
    prefsPending,    \* the notify effect's dependencies changed since it last ran
    \* ---- BrowsingHistory (BrowsingHistory.js:6-10)
    sortBy, filterBy, historySearch, favorites, timestamps,
    tsPending,       \* the timestamp effects due: "history", "touch", "timestamps"
                     \* ("none" would mean that no effect is due)
    now,             \* the value Date.now() returns
    exported,        \* the document the handler that ran last gave for download
    \* ---- Catalog (part_001:14-16)
    wishlist, compareList, compareMode,
    \* ---- observation
    event,           \* the handler that ran last, with its argument (and, for
                     \* a removal, the list the panel showed when it ran)
    trail,           \* the selection toggles since the last other mutation
    lastWriter,      \* id of the request whose response was written last
    clicks           \* product clicks counted by SpecHistory

appVars   == <<products, filteredProducts, userPreferences, browsingHistory,
               recommendations, searchQuery, isLoading, isLoadingProducts,
               notification>>
asyncVars == <<loadPc, requests, nextReq, timers, filterPending>>
prefVars  == <<selectedCategories, selectedBrands, priceRange, prefsPending>>
panelVars == <<sortBy, filterBy, historySearch, favorites, timestamps,
               tsPending, now, exported>>
catalogVars == <<wishlist, compareList, compareMode>>
obsVars   == <<event, trail, lastWriter, clicks>>
vars      == <<appVars, asyncVars, prefVars, panelVars, catalogVars, obsVars>>

(***************************************************************************)
(* Bounds of the model.                                                    *)
(***************************************************************************)
NumProducts == 2      \* products in the catalog the API serves
MaxRequests == 2      \* recommendation requests issued in one run
MaxTimers   == 2      \* notification timers pending at once
MaxTime     == 2      \* largest value of the clock
MaxClicks   == 2      \* clicks after a seeded history (SpecHistory)

(***************************************************************************)
(* Program constants.                                                      *)
(***************************************************************************)
HistoryCap == 20      \* slice(0, 20)
PriceLow   == 50      \* '0-50' / '50-100' boundary
PriceHigh  == 100     \* '50-100' / '100+' boundary

None == [none |-> TRUE]

\* No document was given for download.
NoExport == [given |-> FALSE, doc |-> <<>>]

Range(s) == {s[i] : i \in DOMAIN s}

Min(a, b) == IF a < b THEN a ELSE b

(***************************************************************************)
(* Text.                                                                   *)
(***************************************************************************)
toLowerCase(s) ==
    [i \in DOMAIN s |->
        CASE s[i] = "R" -> "r"
          [] s[i] = "S" -> "s"
          [] s[i] = "T" -> "t"
          [] s[i] = "U" -> "u"
          [] s[i] = "X" -> "x"
          [] OTHER -> s[i]]

\* String.prototype.includes: q occurs in s as a contiguous substring.
includes(s, q) ==
    \E i \in 0..(Len(s) - Len(q)) : SubSeq(s, i + 1, i + Len(q)) = q

(***************************************************************************)
(* The catalog the products endpoint serves.                               *)
(***************************************************************************)
NameTable     == << <<"R","u","n">>, <<"s","u","n">>, <<"T","e","e">> >>
CategoryTable == << <<"S","h">>, <<"T","o">> >>
BrandTable    == << <<"X">>, <<"s","u">>, <<"X">> >>
PriceTable    == <<30, 50, 75, 100, 150>>

Cyc(table, i) == table[((i - 1) % Len(table)) + 1]

ProductOf(i) ==
    [id |-> i, name |-> Cyc(NameTable, i), category |-> Cyc(CategoryTable, i),
     brand |-> Cyc(BrandTable, i), price |-> Cyc(PriceTable, i),
     rating |-> i % 6]

CatalogOf(n) == [i \in 1..n |-> ProductOf(i)]

\* What response.json() of GET /products may yield.
ProductResponses == {CatalogOf(NumProducts)}

SearchInputs == { <<>>, <<"S","H">>, <<"s","u">> }
SliderInputs == {"0", "250"}
PriceBuckets == {"all", "0-50", "50-100", "100+"}


(***************************************************************************)
(* App: the filter pipeline (part_002:45-68).                              *)
(***************************************************************************)
matchesSearch(product, query) ==
    \/ query = <<>>
    \/ includes(toLowerCase(product.name), toLowerCase(query))
    \/ includes(toLowerCase(product.category), toLowerCase(query))
    \/ includes(toLowerCase(product.brand), toLowerCase(query))

matchesCategory(product, prefs) ==
    \/ Len(prefs.categories) = 0
    \/ product.category \in Range(prefs.categories)

matchesBrand(product, prefs) ==
    \/ Len(prefs.brands) = 0
    \/ product.brand \in Range(prefs.brands)

matchesPrice(product, prefs) ==
    \/ prefs.priceRange = "all"
    \/ (prefs.priceRange = "0-50" /\ product.price <= PriceLow)
    \/ (prefs.priceRange = "50-100" /\ product.price > PriceLow
                                   /\ product.price <= PriceHigh)
    \/ (prefs.priceRange = "100+" /\ product.price > PriceHigh)

matchesRating(product, prefs) == product.rating >= prefs.minRating

\* Mutant: the category and brand tests are joined with OR.
filterProducts_BrandOrCategory(ps, query, prefs) ==
    SelectSeq(ps, LAMBDA product :
        /\ matchesSearch(product, query)
        /\ (matchesCategory(product, prefs) \/ matchesBrand(product, prefs))
        /\ matchesPrice(product, prefs)
        /\ matchesRating(product, prefs))

filterProducts(ps, query, prefs) ==
    SelectSeq(ps, LAMBDA product :
        /\ matchesSearch(product, query)
        /\ matchesCategory(product, prefs)
        /\ matchesBrand(product, prefs)
        /\ matchesPrice(product, prefs)
        /\ matchesRating(product, prefs))

(***************************************************************************)
(* App: history and notifications.                                         *)
(***************************************************************************)
\* Mutant: the re-visited identifier is not filtered out.
pushHistory_NoDedup(prev, productId) ==
    LET moved == <<productId>> \o prev
    IN  SubSeq(moved, 1, Min(Len(moved), HistoryCap))

\* Mutant: the cap is applied to prev before the identifier is filtered out.
pushHistory_CapFirst(prev, productId) ==
    LET kept == SubSeq(prev, 1, Min(Len(prev), HistoryCap - 1))
    IN  <<productId>> \o SelectSeq(kept, LAMBDA id : id # productId)

\* [productId, ...prev.filter(id => id !== productId)].slice(0, 20)
pushHistory(prev, productId) ==
    LET moved == <<productId>> \o SelectSeq(prev, LAMBDA id : id # productId)
    IN  SubSeq(moved, 1, Min(Len(moved), HistoryCap))

\* showNotification: set the notification and start a timer that clears it.
showNotification(message, type) ==
    /\ timers < MaxTimers
    /\ notification' = [message |-> message, type |-> type]
    /\ timers' = timers + 1

\* Mutant: the button is never disabled.
buttonDisabled_Never == FALSE

\* disabled={isLoading} on the get-recommendations button.
buttonDisabled == isLoading

\* Passive effects are flushed before a user event is handled.
Quiescent == ~filterPending /\ ~prefsPending

Ev(op, arg) == [op |-> op, arg |-> arg]

(***************************************************************************)
(* UserPreferences (part_000).                                             *)
(***************************************************************************)
\* Mutant: the item is appended whether or not it is selected.
toggle_AlwaysAppend(prev, x) == Append(prev, x)

\* prev.includes(x) ? prev.filter(c => c !== x) : [...prev, x]
toggle(prev, x) ==
    IF x \in Range(prev)
    THEN SelectSeq(prev, LAMBDA c : c # x)
    ELSE Append(prev, x)

\* The last two toggles, with the selection each one found.
traced(kind, arg, before) ==
    LET all == Append(trail, [kind |-> kind, arg |-> arg, before |-> before])
    IN  IF Len(all) > 2 THEN Tail(all) ELSE all

categories == {products[i].category : i \in DOMAIN products}
brands     == {products[i].brand : i \in DOMAIN products}

handleCategoryChange(category) ==
    /\ selectedCategories' = toggle(selectedCategories, category)
    /\ prefsPending' = TRUE
    /\ UNCHANGED <<selectedBrands, priceRange>>

handleBrandChange(brand) ==
    /\ selectedBrands' = toggle(selectedBrands, brand)
    /\ prefsPending' = TRUE
    /\ UNCHANGED <<selectedCategories, priceRange>>

\* onChange of the range input: setPriceRange(e.target.value)
setPriceRange(value) ==
    /\ value # priceRange
    /\ priceRange' = value
    /\ prefsPending' = TRUE
    /\ UNCHANGED <<selectedCategories, selectedBrands>>

\* setUserPreferences(prev => ({ ...prev, ...newPreferences }))
handlePreferencesChange(prev, newPreferences) ==
    [priceRange |-> newPreferences.priceRange,
     categories |-> newPreferences.categories,
     brands     |-> newPreferences.brands,
     minRating  |-> prev.minRating]

\* The effect on [selectedCategories, selectedBrands, priceRange].
PreferencesEffect ==
    /\ prefsPending
    /\ userPreferences' = handlePreferencesChange(userPreferences,
            [categories |-> selectedCategories, brands |-> selectedBrands,
             priceRange |-> priceRange])
    /\ prefsPending' = FALSE
    /\ filterPending' = TRUE
    /\ event' = Ev("other", 0)
    /\ UNCHANGED <<products, filteredProducts, browsingHistory, recommendations,
                   searchQuery, isLoading, isLoadingProducts, notification,
                   loadPc, requests, nextReq, timers,
                   selectedCategories, selectedBrands, priceRange,
                   panelVars, trail, lastWriter, clicks, catalogVars>>

CategoryChange ==
    /\ Quiescent
    /\ \E category \in categories :
        /\ handleCategoryChange(category)
        /\ trail' = traced("category", category, selectedCategories)
    /\ event' = Ev("other", 0)
    /\ UNCHANGED <<appVars, asyncVars, panelVars, lastWriter, clicks, catalogVars>>

BrandChange ==
    /\ Quiescent
    /\ \E brand \in brands :
        /\ handleBrandChange(brand)
        /\ trail' = traced("brand", brand, selectedBrands)
    /\ event' = Ev("other", 0)
    /\ UNCHANGED <<appVars, asyncVars, panelVars, lastWriter, clicks, catalogVars>>

PriceRangeChange ==
    /\ Quiescent
    /\ \E value \in SliderInputs : setPriceRange(value)
    /\ trail' = <<>>
    /\ event' = Ev("other", 0)
    /\ UNCHANGED <<appVars, asyncVars, panelVars, lastWriter, clicks, catalogVars>>


(***************************************************************************)
(* App: loading the catalog (part_002:27-42, api.js:8-20).                 *)
(***************************************************************************)
\* Mutant: the finally block is missing, so a failed load keeps the flag set.
loadFailed_NoFinally ==
    /\ showNotification("Failed to load products.", "error")
    /\ loadPc' = "failed"
    /\ event' = Ev("other", 0)
    /\ UNCHANGED <<products, filteredProducts, userPreferences, browsingHistory,
                   recommendations, searchQuery, isLoading, isLoadingProducts,
                   requests, nextReq, filterPending,
                   prefVars, panelVars, trail, lastWriter, clicks, catalogVars>>

\* catch: showNotification(...'error'); finally: setIsLoadingProducts(false)
loadFailed ==
    /\ showNotification("Failed to load products.", "error")
    /\ isLoadingProducts' = FALSE
    /\ loadPc' = "failed"
    /\ event' = Ev("other", 0)
    /\ UNCHANGED <<products, filteredProducts, userPreferences, browsingHistory,
                   recommendations, searchQuery, isLoading,
                   requests, nextReq, filterPending,
                   prefVars, panelVars, trail, lastWriter, clicks, catalogVars>>

\* The mount effect: setIsLoadingProducts(true), then fetch is called.
LoadProducts ==
    /\ loadPc = "init"
    /\ isLoadingProducts' = TRUE
    /\ loadPc' = "fetch"
    /\ event' = Ev("other", 0)
    /\ UNCHANGED <<products, filteredProducts, userPreferences, browsingHistory,
                   recommendations, searchQuery, isLoading, notification,
                   requests, nextReq, timers, filterPending,
                   prefVars, panelVars, trail, lastWriter, clicks, catalogVars>>

\* fetch resolves with a response whose ok flag is set: response.json() is awaited.
ProductsResponseOk ==
    /\ loadPc = "fetch"
    /\ loadPc' = "json"
    /\ event' = Ev("other", 0)
    /\ UNCHANGED <<appVars, requests, nextReq, timers, filterPending,
                   prefVars, panelVars, trail, lastWriter, clicks, catalogVars>>

\* fetch rejects, or the response is not ok: fetchProducts throws.
ProductsFetchFails ==
    /\ loadPc = "fetch"
    /\ loadFailed

\* response.json() rejects.
ProductsJsonFails ==
    /\ loadPc = "json"
    /\ loadFailed

\* response.json() resolves: setProducts(data); setFilteredProducts(data).
ProductsLoaded ==
    /\ loadPc = "json"
    /\ \E data \in ProductResponses :
        /\ products' = data
        /\ filteredProducts' = data
    /\ isLoadingProducts' = FALSE
    /\ filterPending' = TRUE
    /\ loadPc' = "done"
    /\ event' = Ev("other", 0)
    /\ UNCHANGED <<userPreferences, browsingHistory, recommendations,
                   searchQuery, isLoading, notification,
                   requests, nextReq, timers,
                   prefVars, panelVars, trail, lastWriter, clicks, catalogVars>>

(***************************************************************************)
(* App: the filter effect, search, clicks.                                 *)
(***************************************************************************)
FilterEffect ==
    /\ filterPending
    /\ filteredProducts' = filterProducts(products, searchQuery, userPreferences)
    /\ filterPending' = FALSE
    /\ event' = Ev("other", 0)
    /\ UNCHANGED <<products, userPreferences, browsingHistory, recommendations,
                   searchQuery, isLoading, isLoadingProducts, notification,
                   loadPc, requests, nextReq, timers,
                   prefVars, panelVars, trail, lastWriter, clicks, catalogVars>>

\* onChange of the search input: setSearchQuery(e.target.value)
SearchChange ==
    /\ Quiescent
    /\ \E text \in SearchInputs :
        /\ text # searchQuery
        /\ searchQuery' = text
    /\ filterPending' = TRUE
    /\ event' = Ev("other", 0)
    /\ UNCHANGED <<products, filteredProducts, userPreferences, browsingHistory,
                   recommendations, isLoading, isLoadingProducts, notification,
                   loadPc, requests, nextReq, timers,
                   prefVars, panelVars, trail, lastWriter, clicks, catalogVars>>

\* The cards the Catalog renders: it is mounted once the products are loaded.
clickable ==
    IF isLoadingProducts THEN {}
    ELSE {filteredProducts[i].id : i \in DOMAIN filteredProducts}

\* The panel's timestamp effects depend on the history prop.
handleProductClick(productId) ==
    /\ browsingHistory' = pushHistory(browsingHistory, productId)
    /\ tsPending' = "history"
    /\ exported' = NoExport
    /\ event' = Ev("click", productId)

handleClearHistory ==
    /\ browsingHistory' = <<>>
    /\ tsPending' = "history"
    /\ exported' = NoExport
    /\ event' = Ev("clear", 0)

historyFrame ==
    UNCHANGED <<products, filteredProducts, userPreferences,
                recommendations, searchQuery, isLoading, isLoadingProducts,
                notification, asyncVars, prefVars,
                sortBy, filterBy, historySearch, favorites, timestamps,
                now, trail, lastWriter, catalogVars>>

ProductClick ==
    /\ Quiescent
    /\ \E productId \in clickable : handleProductClick(productId)
    /\ historyFrame
    /\ UNCHANGED clicks

ClearHistory ==
    /\ Quiescent
    /\ handleClearHistory
    /\ historyFrame
    /\ UNCHANGED clicks


(***************************************************************************)
(* App: recommendations (part_002:81-98, api.js:27-53).                    *)
(***************************************************************************)
\* What response.json() of POST /recommendations may yield: a body with a
\* recommendations list, a body without one, or null.
RecommendationLists == { <<1>> }
RecommendationBodies ==
    {[kind |-> "null", items |-> <<>>], [kind |-> "missing", items |-> <<>>]}
    \cup {[kind |-> "list", items |-> l] : l \in RecommendationLists}

\* try: setRecommendations(data.recommendations || []); success notification;
\* finally: setIsLoading(false)
recommendSucceeded(r, items) ==
    /\ recommendations' = items
    /\ showNotification("Recommendations updated!", "success")
    /\ isLoading' = FALSE
    /\ requests' = requests \ {r}
    /\ lastWriter' = r.id
    /\ event' = Ev("other", 0)
    /\ UNCHANGED <<products, filteredProducts, userPreferences, browsingHistory,
                   searchQuery, isLoadingProducts, loadPc, nextReq,
                   filterPending, prefVars, panelVars, trail, clicks, catalogVars>>

\* Mutant: the failure path returns without resetting isLoading.
recommendFailed_NoFinally(r) ==
    /\ showNotification("Failed to get recommendations.", "error")
    /\ requests' = requests \ {r}
    /\ event' = Ev("other", 0)
    /\ UNCHANGED <<products, filteredProducts, userPreferences, browsingHistory,
                   recommendations, searchQuery, isLoading, isLoadingProducts,
                   loadPc, nextReq, filterPending, prefVars, panelVars,
                   trail, lastWriter, clicks, catalogVars>>

\* catch: error notification; finally: setIsLoading(false)
recommendFailed(r) ==
    /\ showNotification("Failed to get recommendations.", "error")
    /\ isLoading' = FALSE
    /\ requests' = requests \ {r}
    /\ event' = Ev("other", 0)
    /\ UNCHANGED <<products, filteredProducts, userPreferences, browsingHistory,
                   recommendations, searchQuery, isLoadingProducts, loadPc,
                   nextReq, filterPending, prefVars, panelVars, trail, lastWriter, clicks, catalogVars>>

\* Mutant: the early return after the warning is missing.
GetRecommendations_NoReturn ==
    /\ Quiescent
    /\ ~buttonDisabled
    /\ event' = Ev("recommend", 0)
    /\ nextReq < MaxRequests
    /\ IF Len(browsingHistory) = 0 /\ Len(userPreferences.categories) = 0
       THEN showNotification("Browse products or set preferences first.",
                             "warning")
       ELSE UNCHANGED <<notification, timers>>
    /\ isLoading' = TRUE
    /\ nextReq' = nextReq + 1
    /\ requests' = requests \cup {[id |-> nextReq + 1, pc |-> "fetch"]}
    /\ UNCHANGED <<products, filteredProducts, userPreferences, browsingHistory,
                   recommendations, searchQuery, isLoadingProducts, loadPc,
                   filterPending, prefVars, panelVars, trail, lastWriter, clicks, catalogVars>>

\* onClick of the get-recommendations button.
GetRecommendations ==
    /\ Quiescent
    /\ ~buttonDisabled
    /\ event' = Ev("recommend", 0)
    /\ IF Len(browsingHistory) = 0 /\ Len(userPreferences.categories) = 0
       THEN /\ showNotification("Browse products or set preferences first.",
                                "warning")
            /\ UNCHANGED <<isLoading, requests, nextReq>>
       ELSE /\ nextReq < MaxRequests
            /\ isLoading' = TRUE
            /\ nextReq' = nextReq + 1
            /\ requests' = requests \cup {[id |-> nextReq + 1, pc |-> "fetch"]}
            /\ UNCHANGED <<notification, timers>>
    /\ UNCHANGED <<products, filteredProducts, userPreferences, browsingHistory,
                   recommendations, searchQuery, isLoadingProducts, loadPc,
                   filterPending, prefVars, panelVars, trail, lastWriter, clicks, catalogVars>>

\* fetch resolves: with response.ok, response.json() is awaited; without,
\* response.text() is awaited.
RecommendResponse ==
    /\ \E r \in requests : \E next \in {"json", "text"} :
        /\ r.pc = "fetch"
        /\ requests' = (requests \ {r}) \cup {[r EXCEPT !.pc = next]}
        /\ event' = Ev("other", 0)
    /\ UNCHANGED <<appVars, loadPc, nextReq, timers, filterPending,
                   prefVars, panelVars, trail, lastWriter, clicks, catalogVars>>

\* fetch rejects: getRecommendations rethrows.
RecommendFetchFails ==
    \E r \in requests : r.pc = "fetch" /\ recommendFailed(r)

\* response.text() settles: getRecommendations throws either way.
RecommendTextDone ==
    \E r \in requests : r.pc = "text" /\ recommendFailed(r)

\* response.json() rejects.
RecommendJsonFails ==
    \E r \in requests : r.pc = "json" /\ recommendFailed(r)

\* response.json() resolves with a body; reading a field of null throws.
RecommendJsonDone ==
    \E r \in requests : \E body \in RecommendationBodies :
        /\ r.pc = "json"
        /\ IF body.kind = "null" THEN recommendFailed(r)
           ELSE IF body.kind = "missing" THEN recommendSucceeded(r, <<>>)
           ELSE recommendSucceeded(r, body.items)

\* setTimeout(() => setNotification(null), 3000)
TimerFire ==
    /\ timers > 0
    /\ notification' = None
    /\ timers' = timers - 1
    /\ event' = Ev("other", 0)
    /\ UNCHANGED <<products, filteredProducts, userPreferences, browsingHistory,
                   recommendations, searchQuery, isLoading, isLoadingProducts,
                   loadPc, requests, nextReq, filterPending,
                   prefVars, panelVars, trail, lastWriter, clicks, catalogVars>>

(***************************************************************************)
(* Catalog: the wish list and the comparison list (part_001:14-16, 45-73,  *)
(* 126-166, 225-227).                                                      *)
(***************************************************************************)
CompareCap == 3       \* compareList.size >= 3

\* The cards the catalog renders: one per product it is given, once loaded.
cards == clickable

\* setWishlist(prev => ...): the id is deleted when present, added otherwise.
handleWishlistToggle(productId) ==
    /\ wishlist' = IF productId \in wishlist THEN wishlist \ {productId}
                   ELSE wishlist \cup {productId}
    /\ event' = Ev("other", 0)

\* Mutant: the early return on a full list is missing.
handleCompareToggle_NoCap(productId) ==
    /\ compareList' = IF productId \in compareList
                      THEN compareList \ {productId}
                      ELSE compareList \cup {productId}
    /\ event' = Ev("compare", productId)

\* if (compareList.size >= 3 && !compareList.has(productId)) return;
\* setCompareList(prev => ...): the id is deleted when present, added otherwise.
handleCompareToggle(productId) ==
    /\ compareList' =
         IF Cardinality(compareList) >= CompareCap /\ productId \notin compareList
         THEN compareList
         ELSE IF productId \in compareList
              THEN compareList \ {productId}
              ELSE compareList \cup {productId}
    /\ event' = Ev("compare", productId)

\* The button's disabled attribute: compareList.size >= 3 && !isSelected.
compareDisabled(productId) ==
    Cardinality(compareList) >= CompareCap /\ productId \notin compareList

catalogFrame ==
    UNCHANGED <<appVars, asyncVars, prefVars, panelVars, trail, lastWriter, clicks>>

WishlistToggle ==
    /\ Quiescent
    /\ \E productId \in cards : handleWishlistToggle(productId)
    /\ UNCHANGED <<compareList, compareMode>>
    /\ catalogFrame

\* onClick={() => setCompareMode(!compareMode)}
ToggleCompareMode ==
    /\ Quiescent
    /\ cards # {}
    /\ compareMode' = ~compareMode
    /\ event' = Ev("other", 0)
    /\ UNCHANGED <<wishlist, compareList>>
    /\ catalogFrame

\* The card's checkbox, shown in compare mode and never disabled.
CompareCheckbox ==
    /\ Quiescent
    /\ compareMode
    /\ \E productId \in cards : handleCompareToggle(productId)
    /\ UNCHANGED <<wishlist, compareMode>>
    /\ catalogFrame

\* The card's compare button, shown in compare mode.
CompareButton ==
    /\ Quiescent
    /\ compareMode
    /\ \E productId \in cards :
         /\ ~compareDisabled(productId)
         /\ handleCompareToggle(productId)
    /\ UNCHANGED <<wishlist, compareMode>>
    /\ catalogFrame

(***************************************************************************)
(* The App as mounted.                                                     *)
(***************************************************************************)
InitApp ==
    /\ products = <<>>
    /\ filteredProducts = <<>>
    /\ userPreferences = [priceRange |-> "all", categories |-> <<>>,
                          brands |-> <<>>, minRating |-> 0]
    /\ browsingHistory = <<>>
    /\ recommendations = <<>>
    /\ searchQuery = <<>>
    /\ isLoading = FALSE
    /\ isLoadingProducts = TRUE
    /\ notification = None
    /\ loadPc = "init"
    /\ requests = {}
    /\ nextReq = 0
    /\ timers = 0
    /\ filterPending = TRUE

\* useState(preferences.categories), useState(preferences.brands),
\* useState(preferences.priceRange || 100): 'all' is truthy.
InitPreferences ==
    /\ selectedCategories = <<>>
    /\ selectedBrands = <<>>
    /\ priceRange = "all"
    /\ prefsPending = TRUE

InitPanel ==
    /\ sortBy = "recent"
    /\ filterBy = [kind |-> "all", category |-> <<>>]
    /\ historySearch = <<>>
    /\ favorites = {}
    /\ timestamps = <<>>
    /\ tsPending = "history"
    /\ now = 1
    /\ exported = NoExport

\* useState(new Set()), useState(new Set()), useState(false)
InitCatalog ==
    /\ wishlist = {}
    /\ compareList = {}
    /\ compareMode = FALSE

InitObs ==
    /\ event = Ev("other", 0)
    /\ trail = <<>>
    /\ lastWriter = 0
    /\ clicks = 0

Init == InitApp /\ InitPreferences /\ InitPanel /\ InitCatalog /\ InitObs

\* The application once the catalog has loaded, with nothing viewed yet.
InitLoaded ==
    /\ products = CatalogOf(NumProducts)
    /\ filteredProducts = CatalogOf(NumProducts)
    /\ userPreferences = [priceRange |-> "all", categories |-> <<>>,
                          brands |-> <<>>, minRating |-> 0]
    /\ browsingHistory = <<>>
    /\ recommendations = <<>>
    /\ searchQuery = <<>>
    /\ isLoading = FALSE
    /\ isLoadingProducts = FALSE
    /\ notification = None
    /\ loadPc = "done"
    /\ requests = {}
    /\ nextReq = 0
    /\ timers = 0
    /\ filterPending = FALSE
    /\ selectedCategories = <<>>
    /\ selectedBrands = <<>>
    /\ priceRange = "all"
    /\ prefsPending = FALSE
    /\ InitPanel
    /\ InitCatalog
    /\ InitObs

\* The App shell with its recommendation requests; the brand, price and search
\* inputs, which the request logic does not read, are exercised by SpecCatalog.
Next ==
    \/ LoadProducts
    \/ ProductsResponseOk
    \/ ProductsFetchFails
    \/ ProductsJsonFails
    \/ ProductsLoaded
    \/ PreferencesEffect
    \/ FilterEffect
    \/ CategoryChange
    \/ ProductClick
    \/ ClearHistory
    \/ GetRecommendations
    \/ RecommendResponse
    \/ RecommendFetchFails
    \/ RecommendTextDone
    \/ RecommendJsonFails
    \/ RecommendJsonDone
    \/ TimerFire

Spec == Init /\ [][Next]_vars


\* The catalog view: loading, the preference inputs, the search box and the
\* two effects that recompute filteredProducts.
NextCatalog ==
    \/ LoadProducts
    \/ ProductsResponseOk
    \/ ProductsFetchFails
    \/ ProductsJsonFails
    \/ ProductsLoaded
    \/ PreferencesEffect
    \/ FilterEffect
    \/ CategoryChange
    \/ BrandChange
    \/ PriceRangeChange
    \/ SearchChange
    \/ TimerFire

SpecCatalog == Init /\ [][NextCatalog]_vars

\* The mount effect runs and the promises of the load settle.
LoadStep ==
    \/ LoadProducts
    \/ ProductsResponseOk
    \/ ProductsFetchFails
    \/ ProductsJsonFails
    \/ ProductsLoaded

LiveCatalog == SpecCatalog /\ WF_vars(LoadStep)


\* Requests settle and timers fire: the scheduling the event loop provides once
\* the network call resolves or rejects.
RequestStep ==
    \/ RecommendResponse
    \/ RecommendFetchFails
    \/ RecommendTextDone
    \/ RecommendJsonFails
    \/ RecommendJsonDone

\* The request life cycle alone, over the loaded catalog: products are viewed,
\* recommendations are asked for, responses arrive and notifications expire.
NextRequests ==
    \/ ProductClick
    \/ ClearHistory
    \/ GetRecommendations
    \/ RequestStep
    \/ TimerFire

LiveSpec ==
    /\ InitLoaded
    /\ [][NextRequests]_vars
    /\ WF_vars(RequestStep)
    /\ WF_vars(TimerFire)

(***************************************************************************)
(* Properties of the App shell.                                            *)
(***************************************************************************)
isWarning(n) == n # None /\ n.type = "warning"

\* C3: when handleGetRecommendations runs with an empty browsingHistory and no
\* selected category, no request is issued, a 'warning' notification is set,
\* and isLoading and recommendations keep their values.
C3_EmptyInputsIssueNoRequest ==
    [][ ( /\ event'.op = "recommend"
          /\ Len(browsingHistory) = 0
          /\ Len(userPreferences.categories) = 0 )
        => ( /\ requests' = requests
             /\ nextReq' = nextReq
             /\ isWarning(notification')
             /\ isLoading' = isLoading
             /\ recommendations' = recommendations ) ]_vars

\* A warning shown after an earlier request had filled the recommendation list.
C3_Witness ==
    /\ event.op = "recommend"
    /\ isWarning(notification)
    /\ Len(browsingHistory) = 0
    /\ Len(userPreferences.categories) = 0
    /\ recommendations # <<>>
    /\ requests = {}

\* C4: issuing a recommendation request sets isLoading, and with requests that
\* settle isLoading is false again later, whether the request succeeded or not.
C4_LoadingEnds ==
    /\ [][nextReq' > nextReq => isLoading']_vars
    /\ (isLoading ~> ~isLoading)

\* A request has failed and the button is enabled again.
C4_Witness ==
    /\ nextReq > 0
    /\ requests = {}
    /\ ~isLoading
    /\ notification # None
    /\ notification.type = "error"
    /\ notification.message = "Failed to get recommendations."

\* C8 (as amended): requests carry no id fence and are never cancelled, but the
\* button is disabled from the issue of a request until its completion, so at
\* most one request is in flight and every response is written before any
\* later request is issued: no response overwrites that of a later request.
C8_ResponsesInIssueOrder ==
    /\ Cardinality(requests) <= 1
    /\ requests # {} => isLoading
    /\ \A r \in requests : r.id = nextReq /\ r.id > lastWriter

\* The response of a second request is written after that of the first.
C8_Witness ==
    /\ nextReq = 2
    /\ lastWriter = 2
    /\ requests = {}

\* C8 (original): a request can be issued from the UI while an earlier one is
\* still pending, which is what lets an earlier response land after a later one.
C8_SecondRequestWhilePending ==
    (requests # {} /\ Quiescent /\ nextReq < MaxRequests)
        => ENABLED GetRecommendations

(***************************************************************************)
(* Properties of the catalog view.                                         *)
(***************************************************************************)
passesFilters(product) ==
    /\ matchesSearch(product, searchQuery)
    /\ matchesCategory(product, userPreferences)
    /\ matchesBrand(product, userPreferences)
    /\ matchesPrice(product, userPreferences)
    /\ matchesRating(product, userPreferences)

indexIn(ps, product) == CHOOSE i \in DOMAIN ps : ps[i] = product

\* C5: with no effect pending, filteredProducts holds exactly the products that
\* pass the search, category, brand, price and rating tests of the current
\* searchQuery and userPreferences, once each, in catalog order.
C5_FilteredIsFunctionOfInputs ==
    Quiescent =>
        /\ Range(filteredProducts) = {product \in Range(products) :
                                        passesFilters(product)}
        /\ \A i, j \in DOMAIN filteredProducts :
             i < j => indexIn(products, filteredProducts[i])
                        < indexIn(products, filteredProducts[j])

\* The search text and a category selection each remove a product.
C5_Witness ==
    /\ Quiescent
    /\ searchQuery # <<>>
    /\ Len(userPreferences.categories) > 0
    /\ Len(filteredProducts) > 0
    /\ Len(filteredProducts) < Len(products)

\* C6: the priceRange the filter pipeline reads is one of the bucket names.
C6_PriceRangeIsBucket == userPreferences.priceRange \in PriceBuckets


\* C10: toggling the same category twice in a row, or the same brand twice in
\* a row, leaves the selection with the members it had before the first toggle.
C10_ToggleTwiceRestoresMembers ==
    (Len(trail) = 2 /\ trail[1].kind = trail[2].kind /\ trail[1].arg = trail[2].arg)
        => Range(IF trail[2].kind = "category" THEN selectedCategories
                                              ELSE selectedBrands)
             = Range(trail[1].before)

\* A double toggle of a brand that was selected, beside another selected brand:
\* the members return, in another order.
C10_Witness ==
    /\ Len(trail) = 2
    /\ trail[1].kind = "brand"
    /\ trail[2].kind = "brand"
    /\ trail[1].arg = trail[2].arg
    /\ Len(trail[1].before) = 2
    /\ selectedBrands # trail[1].before

(***************************************************************************)
(* The history under its cap: a catalog of one product more than the cap,  *)
(* all of it on display, and a history already built by clicking products  *)
(* 1..k in that order.                                                     *)
(***************************************************************************)
SeedHistory(k) == [i \in 1..k |-> k + 1 - i]

InitHistory ==
    /\ products = CatalogOf(HistoryCap + 1)
    /\ filteredProducts = CatalogOf(HistoryCap + 1)
    /\ userPreferences = [priceRange |-> "all", categories |-> <<>>,
                          brands |-> <<>>, minRating |-> 0]
    /\ browsingHistory \in {SeedHistory(k) : k \in 0..HistoryCap}
    /\ recommendations = <<>>
    /\ searchQuery = <<>>
    /\ isLoading = FALSE
    /\ isLoadingProducts = FALSE
    /\ notification = None
    /\ loadPc = "done"
    /\ requests = {}
    /\ nextReq = 0
    /\ timers = 0
    /\ filterPending = FALSE
    /\ selectedCategories = <<>>
    /\ selectedBrands = <<>>
    /\ priceRange = "all"
    /\ prefsPending = FALSE
    /\ InitPanel
    /\ InitCatalog
    /\ InitObs

SeededClick ==
    /\ clicks < MaxClicks
    /\ Quiescent
    /\ \E productId \in clickable : handleProductClick(productId)
    /\ clicks' = clicks + 1
    /\ historyFrame

NextHistory ==
    \/ SeededClick
    \/ ClearHistory

SpecHistory == InitHistory /\ [][NextHistory]_vars

\* C1: browsingHistory never holds an identifier twice, never holds more than
\* 20 entries, and right after a click on p has p at position 0.
C1_HistoryDedupedCappedRecentFirst ==
    /\ \A i, j \in DOMAIN browsingHistory :
         browsingHistory[i] = browsingHistory[j] => i = j
    /\ Len(browsingHistory) <= 20
    /\ event.op = "click" =>
         (Len(browsingHistory) > 0 /\ browsingHistory[1] = event.arg)

\* A full history in which an identifier from the middle was clicked again.
C1_Witness ==
    /\ Len(browsingHistory) = 20
    /\ event.op = "click"
    /\ clicks = MaxClicks
    /\ event.arg < browsingHistory[2]

\* C2: a click on p puts p in front and keeps the other identifiers in order;
\* one is evicted only when the history held 20 entries without p, and then it
\* is the last one.
C2_ClickMovesToFront ==
    [][ event'.op = "click" =>
        LET p == event'.arg
            h == browsingHistory
            g == browsingHistory'
            others == SelectSeq(h, LAMBDA id : id # p)
        IN  /\ Len(g) > 0
            /\ g[1] = p
            /\ Tail(g) = IF p \in Range(h) \/ Len(h) < 20
                         THEN others
                         ELSE SubSeq(h, 1, Len(h) - 1) ]_vars

\* The 21st distinct identifier was clicked: the first-clicked one is gone and
\* the 20 clicked after it remain.
C2_Witness ==
    /\ event = Ev("click", 21)
    /\ browsingHistory = [i \in 1..20 |-> 22 - i]


(***************************************************************************)
(* BrowsingHistory: the derived lists (BrowsingHistory.js:27-70).          *)
(***************************************************************************)
resolves(id) == \E i \in DOMAIN products : products[i].id = id

\* products.find(p => p.id === id)
findProduct(id) ==
    products[CHOOSE i \in DOMAIN products :
                /\ products[i].id = id
                /\ \A j \in 1..(i - 1) : products[j].id # id]

historyEntry(id) ==
    LET product == findProduct(id)
    IN  [id |-> product.id, name |-> product.name, brand |-> product.brand,
         category |-> product.category, price |-> product.price,
         rating |-> product.rating,
         viewedAt |-> IF id \in DOMAIN timestamps THEN timestamps[id] ELSE now,
         isFavorite |-> id \in favorites,
         viewCount |-> Cardinality({i \in DOMAIN browsingHistory :
                                      browsingHistory[i] = id})]

historyProducts ==
    LET resolved == SelectSeq(browsingHistory, resolves)
    IN  [i \in DOMAIN resolved |-> historyEntry(resolved[i])]

\* String.prototype.localeCompare(a, b) > 0: letters are compared without
\* regard to case first; strings equal up to case are ordered by the first
\* position whose case differs, lower case first.
Alphabet == <<"e", "h", "n", "o", "r", "s", "t", "u", "x">>

rank(c) == CHOOSE i \in DOMAIN Alphabet : Alphabet[i] = c

\* Lexicographic comparison of two sequences of numbers: -1, 0 or 1.
RECURSIVE lexCompare(_, _)
lexCompare(a, b) ==
    IF a = <<>> /\ b = <<>> THEN 0
    ELSE IF a = <<>> THEN -1
    ELSE IF b = <<>> THEN 1
    ELSE IF Head(a) < Head(b) THEN -1
    ELSE IF Head(a) > Head(b) THEN 1
    ELSE lexCompare(Tail(a), Tail(b))

letterKeys(s) == [i \in DOMAIN s |-> rank(toLowerCase(s)[i])]
caseKeys(s)   == [i \in DOMAIN s |-> IF toLowerCase(s)[i] = s[i] THEN 0 ELSE 1]

localeCompare(a, b) ==
    IF lexCompare(letterKeys(a), letterKeys(b)) # 0
    THEN lexCompare(letterKeys(a), letterKeys(b))
    ELSE lexCompare(caseKeys(a), caseKeys(b))

\* The comparator of filtered.sort gives a positive number: a goes after b.
sortsAfter(a, b) ==
    CASE sortBy = "recent" -> b.viewedAt > a.viewedAt
      [] sortBy = "name"   -> localeCompare(a.name, b.name) > 0
      [] sortBy = "price"  -> a.price > b.price
      [] sortBy = "rating" -> b.rating > a.rating
      [] OTHER -> FALSE

\* Array.prototype.sort is stable: equal entries keep their order.
RECURSIVE insertSorted(_, _)
insertSorted(sorted, x) ==
    IF sorted = <<>> THEN <<x>>
    ELSE IF sortsAfter(Head(sorted), x) THEN <<x>> \o sorted
    ELSE <<Head(sorted)>> \o insertSorted(Tail(sorted), x)

RECURSIVE sortEntries(_)
sortEntries(entries) ==
    IF entries = <<>> THEN <<>>
    ELSE insertSorted(sortEntries(SubSeq(entries, 1, Len(entries) - 1)),
                      entries[Len(entries)])

matchesHistorySearch(p) ==
    \/ includes(toLowerCase(p.name), toLowerCase(historySearch))
    \/ includes(toLowerCase(p.brand), toLowerCase(historySearch))
    \/ includes(toLowerCase(p.category), toLowerCase(historySearch))

matchesFilterBy(p) ==
    IF filterBy.kind = "favorites" THEN p.isFavorite
    ELSE p.category = filterBy.category

processedProducts ==
    LET searched == IF historySearch # <<>>
                    THEN SelectSeq(historyProducts, matchesHistorySearch)
                    ELSE historyProducts
        filtered == IF filterBy.kind # "all"
                    THEN SelectSeq(searched, matchesFilterBy)
                    ELSE searched
    IN  sortEntries(filtered)

availableCategories ==
    {historyProducts[i].category : i \in DOMAIN historyProducts}

\* The identifiers of the rendered history items, in display order.
displayedIds == [i \in DOMAIN processedProducts |-> processedProducts[i].id]

\* new Date(ms).toISOString()
toISOString(ms) == [iso |-> ms]

serialize(entries) ==
    [i \in DOMAIN entries |->
        [name |-> entries[i].name, brand |-> entries[i].brand,
         category |-> entries[i].category, price |-> entries[i].price,
         rating |-> entries[i].rating,
         viewedAt |-> toISOString(entries[i].viewedAt),
         isFavorite |-> entries[i].isFavorite]]


(***************************************************************************)
(* BrowsingHistory: the timestamp effects (BrowsingHistory.js:12-25).      *)
(***************************************************************************)
\* new Map(timestamps), with Date.now() for each identifier it lacks
fillMissing(ts, history, t) ==
    [id \in DOMAIN ts \cup Range(history) |->
        IF id \in DOMAIN ts THEN ts[id] ELSE t]

\* Mutant: the second effect stamps every identifier of the history.
touchLatest_WholeHistory(ts, history, t) ==
    [id \in DOMAIN ts \cup Range(history) |->
        IF id \in Range(history) THEN t ELSE ts[id]]

\* new Map(prev.set(latest, Date.now()))
touchLatest(ts, history, t) ==
    [id \in DOMAIN ts \cup {history[1]} |->
        IF id = history[1] THEN t ELSE ts[id]]

panelFrame ==
    UNCHANGED <<appVars, asyncVars, prefVars, trail, lastWriter, clicks, catalogVars>>

\* The effect on [history, timestamps]: it runs after every render that
\* changed either, and the Map it stores is a new object each time.
TimestampFillEffect ==
    /\ tsPending \in {"history", "timestamps"}
    /\ timestamps' = fillMissing(timestamps, browsingHistory, now)
    /\ tsPending' = IF tsPending = "history" THEN "touch" ELSE "timestamps"
    /\ exported' = NoExport
    /\ event' = Ev("other", 0)
    /\ UNCHANGED <<sortBy, filterBy, historySearch, favorites, now>>
    /\ panelFrame

\* The effect on [history], queued behind the first in the same flush.
TimestampTouchEffect ==
    /\ tsPending = "touch"
    /\ timestamps' = IF Len(browsingHistory) > 0
                     THEN touchLatest(timestamps, browsingHistory, now)
                     ELSE timestamps
    /\ tsPending' = "timestamps"
    /\ exported' = NoExport
    /\ event' = Ev("other", 0)
    /\ UNCHANGED <<sortBy, filterBy, historySearch, favorites, now>>
    /\ panelFrame

\* The clock Date.now() reads.
Tick ==
    /\ now < MaxTime
    /\ now' = now + 1
    /\ exported' = NoExport
    /\ event' = Ev("other", 0)
    /\ UNCHANGED <<sortBy, filterBy, historySearch, favorites, timestamps,
                   tsPending>>
    /\ panelFrame

\* The effects of a history change are flushed before a user event is handled.
PanelFlushed == tsPending = "timestamps"

(***************************************************************************)
(* BrowsingHistory: the handlers (BrowsingHistory.js:92-128, 183-208).     *)
(***************************************************************************)
handleFavoriteToggle(productId) ==
    favorites' = IF productId \in favorites
                 THEN favorites \ {productId}
                 ELSE favorites \cup {productId}

\* Mutant: the whole favorites set is emptied.
handleRemoveItem_ClearsAll(productId) == favorites' = {}

handleRemoveItem(productId) == favorites' = favorites \ {productId}

\* Mutant: the visible (searched, filtered, sorted) entries are serialized.
exportHistory_Visible ==
    exported' = [given |-> TRUE, doc |-> serialize(processedProducts)]

exportHistory ==
    exported' = [given |-> TRUE, doc |-> serialize(historyProducts)]

FavoriteToggle ==
    /\ PanelFlushed
    /\ \E productId \in Range(displayedIds) : handleFavoriteToggle(productId)
    /\ exported' = NoExport
    /\ event' = Ev("other", 0)
    /\ UNCHANGED <<sortBy, filterBy, historySearch, timestamps, tsPending, now>>
    /\ panelFrame

RemoveItem ==
    /\ PanelFlushed
    /\ \E productId \in Range(displayedIds) :
        /\ handleRemoveItem(productId)
        /\ event' = [op |-> "remove", arg |-> productId, shown |-> displayedIds]
    /\ exported' = NoExport
    /\ UNCHANGED <<sortBy, filterBy, historySearch, timestamps, tsPending, now>>
    /\ panelFrame

ExportHistory ==
    /\ PanelFlushed
    /\ exportHistory
    /\ event' = Ev("export", 0)
    /\ UNCHANGED <<sortBy, filterBy, historySearch, favorites, timestamps,
                   tsPending, now>>
    /\ panelFrame

FilterByChoices ==
    {[kind |-> "all", category |-> <<>>], [kind |-> "favorites", category |-> <<>>]}
    \cup {[kind |-> "category", category |-> c] : c \in availableCategories}

SetFilterBy ==
    /\ PanelFlushed
    /\ \E choice \in FilterByChoices :
        /\ choice # filterBy
        /\ filterBy' = choice
    /\ exported' = NoExport
    /\ event' = Ev("other", 0)
    /\ UNCHANGED <<sortBy, historySearch, favorites, timestamps, tsPending, now>>
    /\ panelFrame

SetSortBy ==
    /\ PanelFlushed
    /\ \E choice \in {"recent", "name", "price", "rating"} :
        /\ choice # sortBy
        /\ sortBy' = choice
    /\ exported' = NoExport
    /\ event' = Ev("other", 0)
    /\ UNCHANGED <<filterBy, historySearch, favorites, timestamps, tsPending, now>>
    /\ panelFrame

\* onChange of the panel's search input, and handleClearSearch.
HistorySearchChange ==
    /\ PanelFlushed
    /\ \E text \in SearchInputs :
        /\ text # historySearch
        /\ historySearch' = text
    /\ exported' = NoExport
    /\ event' = Ev("other", 0)
    /\ UNCHANGED <<sortBy, filterBy, favorites, timestamps, tsPending, now>>
    /\ panelFrame

PanelProductClick == PanelFlushed /\ ProductClick

PanelClearHistory == PanelFlushed /\ ClearHistory

NextPanel ==
    \/ TimestampFillEffect
    \/ TimestampTouchEffect
    \/ Tick
    \/ PanelProductClick
    \/ PanelClearHistory
    \/ FavoriteToggle
    \/ RemoveItem
    \/ ExportHistory
    \/ SetFilterBy
    \/ SetSortBy
    \/ HistorySearchChange

SpecPanel == InitLoaded /\ [][NextPanel]_vars


(***************************************************************************)
(* Properties of the history panel.                                        *)
(***************************************************************************)
\* C7 (as amended): exportHistory serializes every history entry that resolves
\* against the catalog, in history order (most recent first), whatever the
\* panel's search text, category/favorites filter and sort selection are.
C7_ExportIsWholeHistory ==
    exported.given =>
        LET ids == SelectSeq(browsingHistory, resolves)
            doc == exported.doc
        IN  /\ Len(doc) = Len(ids)
            /\ \A i \in DOMAIN ids :
                LET product == findProduct(ids[i])
                IN  /\ doc[i].name = product.name
                    /\ doc[i].brand = product.brand
                    /\ doc[i].category = product.category
                    /\ doc[i].price = product.price
                    /\ doc[i].rating = product.rating
                    /\ doc[i].viewedAt = toISOString(timestamps[ids[i]])
                    /\ doc[i].isFavorite = (ids[i] \in favorites)

\* An export of two entries while the panel shows fewer.
C7_Witness ==
    /\ exported.given
    /\ Len(exported.doc) = 2
    /\ Len(processedProducts) < 2

\* C7 (original): exportHistory serializes the entries the panel shows
\* (processedProducts), in the displayed order.
C7_ExportIsVisibleEntries ==
    exported.given => exported.doc = serialize(processedProducts)

\* C9: the remove action for p clears p's favorite flag and nothing else: the
\* history (which keeps p), the timestamps and the other favorite flags stay,
\* and so does the list shown under the 'all' filter.
C9_RemoveOnlyClearsFavorite ==
    /\ [][ event'.op = "remove" =>
            LET p == event'.arg
            IN  /\ browsingHistory' = browsingHistory
                /\ p \in Range(browsingHistory')
                /\ timestamps' = timestamps
                /\ favorites' = favorites \ {p}
                /\ filterBy' = filterBy ]_vars
    /\ [](event.op = "remove" /\ filterBy.kind = "all"
            => displayedIds = event.shown)

\* p was removed under the 'all' filter while another entry is a favorite.
C9_Witness ==
    /\ event.op = "remove"
    /\ event.arg \in Range(displayedIds)
    /\ event.arg \notin favorites
    /\ favorites # {}
    /\ filterBy.kind = "all"


(***************************************************************************)
(* Properties of the catalog load.                                         *)
(***************************************************************************)
loadEnded == loadPc \in {"done", "failed"}

\* C11: the product load started on mount always ends with isLoadingProducts
\* false, whether fetchProducts resolves or rejects (a non-2xx response
\* included); when it fails, an 'error' notification is set and products and
\* filteredProducts stay empty.
C11_LoadEndsNotLoading ==
    /\ <>loadEnded
    /\ [](loadEnded => ~isLoadingProducts)
    /\ [](loadPc = "failed" => products = <<>> /\ filteredProducts = <<>>)
    /\ [][ (loadPc # "failed" /\ loadPc' = "failed")
           => (notification' # None /\ notification'.type = "error") ]_vars

\* The load has failed, the flag is down, the error is on show, and the
\* filter effect has since run over the empty catalog.
C11_Witness ==
    /\ loadPc = "failed"
    /\ ~isLoadingProducts
    /\ notification # None
    /\ notification.type = "error"
    /\ ~filterPending
    /\ filteredProducts = <<>>


(***************************************************************************)
(* Properties of the panel's timestamps.                                   *)
(***************************************************************************)
\* C12: a viewed-at timestamp is assigned when the identifier first appears
\* in the history, and afterwards it changes only in the effect that follows
\* a history change and only for the identifier then at position 0; every
\* other identifier keeps its timestamp across clicks, favorite toggles,
\* removals and filter, sort and search changes.
C12_TimestampChangesOnlyForLatest ==
    [][ /\ DOMAIN timestamps \subseteq DOMAIN timestamps'
        /\ \A id \in DOMAIN timestamps' :
             IF id \in DOMAIN timestamps
             THEN timestamps'[id] # timestamps[id]
                  => ( /\ tsPending = "touch"
                       /\ Len(browsingHistory) > 0
                       /\ browsingHistory[1] = id )
             ELSE id \in Range(browsingHistory) ]_vars

\* Two viewed products: the older view kept its earlier timestamp while the
\* later one was stamped afresh, and a favorite has been toggled meanwhile.
C12_Witness ==
    /\ PanelFlushed
    /\ Len(browsingHistory) = 2
    /\ timestamps[browsingHistory[1]] > timestamps[browsingHistory[2]]
    /\ favorites # {}


(***************************************************************************)
(* Properties of the notifications.                                        *)
(***************************************************************************)
\* C13: each notification is cleared by the timer of its own showNotification
\* call, never by the timer that an earlier call started.  Every timer has
\* the same delay, so timers fire in the order they were started, and the
\* notification on show is the one of the latest call: its own timer is the
\* last one pending, and a clearing while another timer is pending is the
\* work of an earlier call's timer.
C13_ClearedByOwnTimerOnly ==
    [][ (notification # None /\ notification' = None) => timers = 1 ]_vars

allStamped == Range(browsingHistory) \subseteq DOMAIN timestamps

\* C14: the timestamp bookkeeping reaches quiescence: once every identifier of
\* the history has a timestamp and the effects of the history change have
\* run, the run of the fill effect that is due leaves no timestamp effect due
\* after it (tsPending would be "none").  The fill effect stores a new Map
\* on every run, its own dependency, so it is due again after every run.
C14_FillEffectQuiesces ==
    (PanelFlushed /\ allStamped)
        => ENABLED (TimestampFillEffect /\ tsPending' = "none")


(***************************************************************************)
(* The catalog's comparison list, over a loaded catalog with one product   *)
(* more than the list may hold.                                            *)
(***************************************************************************)
InitCompare ==
    /\ products = CatalogOf(CompareCap + 1)
    /\ filteredProducts = CatalogOf(CompareCap + 1)
    /\ userPreferences = [priceRange |-> "all", categories |-> <<>>,
                          brands |-> <<>>, minRating |-> 0]
    /\ browsingHistory = <<>>
    /\ recommendations = <<>>
    /\ searchQuery = <<>>
    /\ isLoading = FALSE
    /\ isLoadingProducts = FALSE
    /\ notification = None
    /\ loadPc = "done"
    /\ requests = {}
    /\ nextReq = 0
    /\ timers = 0
    /\ filterPending = FALSE
    /\ selectedCategories = <<>>
    /\ selectedBrands = <<>>
    /\ priceRange = "all"
    /\ prefsPending = FALSE
    /\ InitPanel
    /\ InitCatalog
    /\ InitObs

NextCompare ==
    \/ WishlistToggle
    \/ ToggleCompareMode
    \/ CompareCheckbox
    \/ CompareButton

SpecCompare == InitCompare /\ [][NextCompare]_vars

\* C15: the comparison list never holds more than three identifiers, and a
\* toggle of an identifier that is not in the list while it holds three leaves
\* the list unchanged.
C15_CompareListAtMostThree ==
    /\ [](Cardinality(compareList) <= CompareCap)
    /\ [][ ( /\ event'.op = "compare"
             /\ Cardinality(compareList) >= CompareCap
             /\ event'.arg \notin compareList )
           => compareList' = compareList ]_vars

\* The checkbox of a fourth product was ticked while the list held three.
C15_Witness ==
    /\ event.op = "compare"
    /\ event.arg \notin compareList
    /\ Cardinality(compareList) = CompareCap
    /\ compareMode


(***************************************************************************)
(* Properties of the panel's derived entries.                              *)
(***************************************************************************)
\* C16: the derived viewCount of every entry of the history panel equals 1,
\* whatever products were viewed and however often.
C16_ViewCountIsOne ==
    \A i \in DOMAIN historyProducts : historyProducts[i].viewCount = 1

\* A product that already had a timestamp from an earlier view was clicked
\* again and is listed, with another product behind it.
C16_Witness ==
    /\ event.op = "click"
    /\ tsPending = "history"
    /\ event.arg \in DOMAIN timestamps
    /\ Len(historyProducts) = 2
    /\ historyProducts[1].id = event.arg
====
